---- MODULE Spec2Model ----
(***************************************************************************)
(* Equipment lifecycle of iMaster_Service (inventory app).                 *)
(*                                                                         *)
(* One equipment item is followed through the requests that touch it:      *)
(* EquipmentSerializer.create / validate / update, the FSM methods of      *)
(* inventory.models.Equipment, and the Repair / Disposal ledger rows that  *)
(* hang off the item through a OneToOneField.  Requests address exactly    *)
(* one item by primary key, so one item is enough to exercise them.        *)
(*                                                                         *)
(* The pre_save / post_save handlers of inventory/signals.py add nothing   *)
(* to these requests: update() attaches the ledger row to the instance     *)
(* before it saves the equipment.  SpecSignals checks exactly that.        *)
(*                                                                         *)
(* Spec      : every request is one step (requests do not overlap).        *)
(* SpecFSM   : as Spec, restricted to intake with default fields, update   *)
(*             requests and the pending -> in_progress repair edit.        *)
(* SpecConc  : the update request split at its database accesses, run by   *)
(*             several workers against the same item.                      *)
(* SpecMain  : status requests on the item while warehouses are saved and   *)
(*             the main flag moves.                                         *)
(* SpecMainConc : as SpecMain, with Warehouse.save split at its two         *)
(*             statements and run by several workers.                       *)
(* SpecBulk  : bulk-create requests, each inside its transaction, run by    *)
(*             several workers.                                             *)
(* SpecInn   : SpecBulk plus the other requests that write Equipment.inn.   *)
(* SpecMove  : SpecFSM's requests plus manual MovementHistory entries.      *)
(* SpecAdmin : SpecMove's equipment requests plus force_in_use.            *)
(* SpecSignals : SpecMove's equipment requests plus status edits in the   *)
(*             admin, every save followed by the handlers of signals.py.  *)
(***************************************************************************)
EXTENDS Integers, Sequences, FiniteSets, TLC

\* ---------------------------------------------------------------- bounds
NumRooms == 2
NumWarehouses == 2
NumInns == 2
MaxCount == 2
MaxItems == 3
MaxMovements == 1

\* ------------------------------------------------------------- constants
\* Python None in a nullable foreign key / a key that is absent from the
\* request data.
Null == 0
Absent == -1

Rooms == 1..NumRooms
Warehouses == 1..NumWarehouses

\* Equipment.STATUS_CHOICES
STATUS_CHOICES == {"in_stock", "in_use", "in_repair", "disposed"}

\* Repair.status choices
RepairStatuses == {"pending", "in_progress", "completed", "failed"}
OpenRepair == {"pending", "in_progress"}
ClosedRepair == {"completed", "failed"}

\* gunicorn workers serving requests at the same time
Procs == {"w1", "w2"}

VARIABLES
    exists,        \* the equipment row has been inserted
    status,        \* Equipment.status   (persisted)
    room,          \* Equipment.room     (persisted, Null or a room)
    warehouse,     \* Equipment.warehouse(persisted, Null or a warehouse)
    repairs,       \* rows of Repair that reference the item
    disposals,     \* rows of Disposal that reference the item
    is_main,       \* Warehouse.is_main per warehouse
    response,      \* the last non-overlapping request (op, status read, status asked) and its result
    roomAtRepair,  \* history: room the item had when in_use -> in_repair was requested
    pc,            \* SpecConc: position of each worker in its request
    inst,          \* SpecConc: the worker's in-memory Equipment instance
    req,           \* SpecConc: the worker's request data
    orig_room,     \* SpecConc: the worker's local original_room
    orig_status,   \* SpecConc: the worker's local original_status
    outcome,       \* SpecConc: how the worker's last request ended
    wh_pc,         \* SpecMainConc: position of each worker in Warehouse.save
    wh_req,        \* SpecMainConc: the warehouse the worker saves and its is_main
    inn,           \* Equipment.inn of the committed equipment rows, by id
    bulk_pc,       \* SpecBulk: position of each worker in its bulk-create request
    bulk_req,      \* SpecBulk: the worker's bulk-create request data
    bulk_i,        \* SpecBulk: rows the worker's create loop has written so far
    bulk_out,      \* SpecBulk: how the worker's last bulk-create request ended
    movements      \* rows of MovementHistory that reference the item

dbvars == <<exists, status, room, warehouse, repairs, disposals>>
whvars == <<wh_pc, wh_req>>
bulkvars == <<inn, bulk_pc, bulk_req, bulk_i, bulk_out>>
auxvars == <<bulkvars, movements>>
procvars == <<pc, inst, req, orig_room, orig_status, outcome, whvars>>
vars == <<exists, status, room, warehouse, repairs, disposals, is_main,
          response, roomAtRepair, pc, inst, req, orig_room, orig_status, outcome,
          wh_pc, wh_req, inn, bulk_pc, bulk_req, bulk_i, bulk_out, movements>>

\* ---------------------------------------------------------- request data
\* What EquipmentSerializer receives for the fields the lifecycle reads.
ReqData ==
    [status : STATUS_CHOICES \cup {"absent"},
     room : Rooms \cup {Null, Absent},
     warehouse : Warehouses \cup {Null, Absent},
     send_to_warehouse : BOOLEAN]

StatusOnly(s) ==
    [status |-> s, room |-> Absent, warehouse |-> Absent, send_to_warehouse |-> FALSE]

\* Truthiness of data.get(key): absent and None are both falsy.
Given(v) == v # Absent /\ v # Null

\* ------------------------------------------------------------ warehouses
\* Warehouse.get_main: filter(is_main=True).first()
GetMain ==
    IF \E w \in Warehouses : is_main[w]
    THEN CHOOSE w \in Warehouses : is_main[w] /\ \A v \in Warehouses : is_main[v] => w <= v
    ELSE Null

\* The UPDATE of Warehouse.save: every other row loses is_main.
ClearOtherMains(m, w) == [v \in Warehouses |-> IF v # w THEN FALSE ELSE m[v]]

\* ------------------------------------------------------- FSM of Equipment
StartUseM(eq) == [eq EXCEPT !.warehouse = Null, !.status = "in_use"]

ReturnToStockM(eq, main) ==
    [eq EXCEPT !.room = Null, !.warehouse = main, !.status = "in_stock"]

SendToRepairM(eq) == [eq EXCEPT !.room = Null, !.status = "in_repair"]

CompleteRepairM(eq, reps) ==
    [eq EXCEPT !.room = IF Len(reps) > 0 /\ reps[1].original_room # Null
                        THEN reps[1].original_room ELSE @,
               !.status = "in_use"]

ReturnFromRepairToStockM(eq, main) ==
    [eq EXCEPT !.warehouse = main, !.status = "in_stock"]

FailRepairM(eq) == [eq EXCEPT !.room = Null, !.warehouse = Null, !.status = "disposed"]

DisposeM(eq) == [eq EXCEPT !.room = Null, !.warehouse = Null, !.status = "disposed"]

\* ------------------------------------------------------------- ledgers
\* A new row that takes its room from the equipment as it is at insert time.
RepairNew_NoCapture(equipmentRoom, original_room) ==
    [status |-> "pending", original_room |-> equipmentRoom, end_date |-> FALSE]

\* Repair.save on a new row: original_room falls back to equipment.room.
RepairNew(equipmentRoom, original_room) ==
    [status |-> "pending",
     original_room |-> IF original_room = Null THEN equipmentRoom ELSE original_room,
     end_date |-> FALSE]

\* Repair.save on an existing row: end_date is stamped when an open row closes.
RepairSaveRow(old, new) ==
    IF old.status \in OpenRepair /\ new.status \in ClosedRepair
    THEN [new EXCEPT !.end_date = TRUE]
    ELSE new

\* A close that also takes a pending record.
CloseRepair_AnyOpen(reps, to) ==
    IF Len(reps) > 0 /\ reps[1].status \in OpenRepair
    THEN [reps EXCEPT ![1] = RepairSaveRow(@, [@ EXCEPT !.status = to])]
    ELSE reps

\* "if repair.status == 'in_progress': repair.status = <to>; repair.save()",
\* skipped when the item has no repair_record.
CloseRepair(reps, to) ==
    IF Len(reps) > 0 /\ reps[1].status = "in_progress"
    THEN [reps EXCEPT ![1] = RepairSaveRow(@, [@ EXCEPT !.status = to])]
    ELSE reps

\* Disposal.save on a new row: original_room is read from equipment.room.
DisposalNew(eq, reason) == [reason |-> reason, original_room |-> eq.room]

\* OneToOneField(Equipment): the insert is refused when the item already has a row.
UniqueOk_NoConstraint(rows) == TRUE

UniqueOk(rows) == Len(rows) = 0


\* ------------------------------------------------- EquipmentSerializer

\* The decorators with force_in_use offered from in_stock only.
SourceOf_ForceFromStock(method) ==
    CASE method = "start_use" -> {"in_stock"}
      [] method = "return_to_stock" -> {"in_use"}
      [] method = "send_to_repair" -> {"in_use"}
      [] method = "complete_repair" -> {"in_repair"}
      [] method = "return_from_repair_to_stock" -> {"in_repair"}
      [] method = "fail_repair" -> {"in_repair"}
      [] method = "dispose" -> {"in_stock", "in_use"}
      [] method = "force_in_use" -> {"in_stock"}

\* source= of the @transition decorators, as can_proceed reads them.
SourceOf(method) ==
    CASE method = "start_use" -> {"in_stock"}
      [] method = "return_to_stock" -> {"in_use"}
      [] method = "send_to_repair" -> {"in_use"}
      [] method = "complete_repair" -> {"in_repair"}
      [] method = "return_from_repair_to_stock" -> {"in_repair"}
      [] method = "fail_repair" -> {"in_repair"}
      [] method = "dispose" -> {"in_stock", "in_use"}
      [] method = "force_in_use" -> STATUS_CHOICES

CanProceed(method, st) == st \in SourceOf(method)

\* transition_map of _validate_fsm_transition: "none" stands for .get() -> None
TransitionMap(from, to) ==
    CASE from = "in_stock" /\ to = "in_use" -> "start_use"
      [] from = "in_use" /\ to = "in_stock" -> "return_to_stock"
      [] from = "in_use" /\ to = "in_repair" -> "send_to_repair"
      [] from = "in_repair" /\ to = "in_use" -> "complete_repair"
      [] from = "in_repair" /\ to = "in_stock" -> "return_from_repair_to_stock"
      [] from = "in_repair" /\ to = "disposed" -> "fail_repair"
      [] from = "in_stock" /\ to = "disposed" -> "dispose"
      [] from = "in_use" /\ to = "disposed" -> "dispose"
      [] OTHER -> "none"

\* A map that also offers the source='*' transition for every target in_use.
ValidateFsmTransition_Force(from, to) ==
    LET m == IF to = "in_use" /\ TransitionMap(from, to) = "none"
             THEN "force_in_use" ELSE TransitionMap(from, to)
    IN m # "none" /\ CanProceed(m, from)

\* TRUE when the transition is accepted, FALSE when ValidationError is raised.
ValidateFsmTransition(from, to) ==
    LET m == TransitionMap(from, to)
    IN m # "none" /\ CanProceed(m, from)

\* validate() running the transition check also when the status is unchanged.
Validate_StrictFsm(hasInstance, cur, d) ==
    /\ ~(Given(d.room) /\ Given(d.warehouse))
    /\ ~(d.send_to_warehouse /\ Given(d.room))
    /\ (hasInstance /\ d.status # "absent") => ValidateFsmTransition(cur, d.status)

\* validate() without its FSM section.
Validate_NoFsm(hasInstance, cur, d) ==
    /\ ~(Given(d.room) /\ Given(d.warehouse))
    /\ ~(d.send_to_warehouse /\ Given(d.room))

\* EquipmentSerializer.validate: TRUE when data is returned, FALSE on ValidationError.
\* hasInstance is FALSE for a create request (self.instance is None).
Validate(hasInstance, cur, d) ==
    /\ ~(Given(d.room) /\ Given(d.warehouse))
    /\ ~(d.send_to_warehouse /\ Given(d.room))
    /\ (hasInstance /\ d.status # "absent" /\ d.status # cur)
          => ValidateFsmTransition(cur, d.status)

\* update(): the room / warehouse entries of validated_data after the
\* "move between warehouse and room" block.  Absent = key not in validated_data.
ValidatedLocation(d, main) ==
    IF d.send_to_warehouse
    THEN [room |-> Null, warehouse |-> main]
    ELSE IF d.room # Absent /\ d.room # Null
    THEN [room |-> d.room, warehouse |-> Null]
    ELSE IF d.warehouse # Absent /\ d.warehouse # Null
    THEN [room |-> Null, warehouse |-> d.warehouse]
    ELSE [room |-> d.room, warehouse |-> d.warehouse]

\* "for attr, value in validated_data.items(): setattr(instance, attr, value)"
SetAttrs(eq, loc) ==
    [eq EXCEPT !.room = IF loc.room = Absent THEN @ ELSE loc.room,
               !.warehouse = IF loc.warehouse = Absent THEN @ ELSE loc.warehouse]

\* _execute_fsm_transition, run without interruption: the in-memory instance
\* and the two ledgers after the branch for (original_status, new_status).
ExecuteFsmTransition(eq, reps, disps, original_status, new_status, main) ==
    LET same == [eq |-> eq, repairs |-> reps, disposals |-> disps] IN
    IF original_status = "in_stock" /\ new_status = "in_use" THEN
        IF CanProceed("start_use", eq.status)
        THEN [same EXCEPT !.eq = StartUseM(eq)] ELSE same
    ELSE IF original_status = "in_use" /\ new_status = "in_stock" THEN
        IF CanProceed("return_to_stock", eq.status)
        THEN [same EXCEPT !.eq = ReturnToStockM(eq, main)] ELSE same
    ELSE IF original_status = "in_use" /\ new_status = "in_repair" THEN
        IF CanProceed("send_to_repair", eq.status)
        THEN LET original_room == eq.room
                 after == SendToRepairM(eq)
             IN [eq |-> after,
                 repairs |-> IF Len(reps) > 0 THEN reps
                             ELSE Append(reps, RepairNew(after.room, original_room)),
                 disposals |-> disps]
        ELSE same
    ELSE IF original_status = "in_repair" /\ new_status = "in_use" THEN
        IF CanProceed("complete_repair", eq.status)
        THEN LET closed == CloseRepair(reps, "completed")
             IN [eq |-> CompleteRepairM(eq, closed), repairs |-> closed, disposals |-> disps]
        ELSE same
    ELSE IF original_status = "in_repair" /\ new_status = "in_stock" THEN
        IF CanProceed("return_from_repair_to_stock", eq.status)
        THEN [eq |-> ReturnFromRepairToStockM(eq, main),
              repairs |-> CloseRepair(reps, "completed"), disposals |-> disps]
        ELSE same
    ELSE IF original_status = "in_repair" /\ new_status = "disposed" THEN
        IF CanProceed("fail_repair", eq.status)
        THEN LET after == FailRepairM(eq)
             IN [eq |-> after,
                 repairs |-> CloseRepair(reps, "failed"),
                 disposals |-> IF Len(disps) > 0 THEN disps
                               ELSE Append(disps, DisposalNew(after, "failed repair"))]
        ELSE same
    ELSE IF original_status \in {"in_stock", "in_use"} /\ new_status = "disposed" THEN
        IF CanProceed("dispose", eq.status)
        THEN LET after == DisposeM(eq)
             IN [eq |-> after,
                 repairs |-> reps,
                 disposals |-> IF Len(disps) > 0 THEN disps
                               ELSE Append(disps, DisposalNew(after, "disposal"))]
        ELSE same
    ELSE same

\* The persisted equipment row as an in-memory instance (get_object).
Instance == [status |-> status, room |-> room, warehouse |-> warehouse]

Resp(op, from, to, result) == [op |-> op, from |-> from, to |-> to, result |-> result]

\* -------------------------------------------------------------- requests
\* POST /equipment/ : EquipmentSerializer.validate + create.
Create(d) ==
    /\ ~exists
    /\ UNCHANGED auxvars
    /\ UNCHANGED <<repairs, disposals, is_main, roomAtRepair, procvars>>
    /\ IF Validate(FALSE, "in_stock", d) /\ GetMain # Null
       THEN /\ exists' = TRUE
            /\ status' = IF d.status = "absent" THEN "in_stock" ELSE d.status
            /\ room' = Null
            /\ warehouse' = GetMain
            /\ response' = Resp("create", "none", d.status, "ok")
       ELSE /\ UNCHANGED <<exists, status, room, warehouse>>
            /\ response' = Resp("create", "none", d.status, "error")

\* PUT/PATCH /equipment/{id}/ : EquipmentSerializer.validate + update.
Update(d) ==
    /\ exists
    /\ UNCHANGED auxvars
    /\ UNCHANGED <<exists, is_main, procvars>>
    /\ LET original_status == status
           new_status == IF d.status = "absent" THEN status ELSE d.status
           main == GetMain
           loc == ValidatedLocation(d, main)
           fsm == IF new_status # original_status
                  THEN ExecuteFsmTransition(Instance, repairs, disposals,
                                            original_status, new_status, main)
                  ELSE [eq |-> Instance, repairs |-> repairs, disposals |-> disposals]
           saved == SetAttrs(fsm.eq, loc)
       IN IF Validate(TRUE, status, d) /\ ~(d.send_to_warehouse /\ main = Null)
          THEN /\ status' = saved.status
               /\ room' = saved.room
               /\ warehouse' = saved.warehouse
               /\ repairs' = fsm.repairs
               /\ disposals' = fsm.disposals
               /\ roomAtRepair' = IF original_status = "in_use" /\ new_status = "in_repair"
                                  THEN room ELSE roomAtRepair
               /\ response' = Resp("update", original_status, d.status, "ok")
          ELSE /\ UNCHANGED <<status, room, warehouse, repairs, disposals, roomAtRepair>>
               /\ response' = Resp("update", original_status, d.status, "error")

\* Request bodies built by the detail actions of EquipmentViewSet.
StartUseData == StatusOnly("in_use")
SendToRepairData == StatusOnly("in_repair")
DisposeData == StatusOnly("disposed")
AssignToRoomData(r) == [StatusOnly("absent") EXCEPT !.room = r]
ReturnToWarehouseData == [StatusOnly("absent") EXCEPT !.send_to_warehouse = TRUE]

\* PUT/PATCH /repairs/{id}/ : RepairSerializer writes status, Repair.save runs.
RepairEdit(s) ==
    /\ Len(repairs) > 0
    /\ UNCHANGED auxvars
    /\ repairs' = [repairs EXCEPT ![1] = RepairSaveRow(@, [@ EXCEPT !.status = s])]
    /\ response' = Resp("repair_edit", status, "absent", "ok")
    /\ UNCHANGED <<exists, status, room, warehouse, disposals, is_main, roomAtRepair, procvars>>

\* The technician takes the repair: pending -> in_progress.
RepairStart ==
    /\ Len(repairs) > 0
    /\ repairs[1].status = "pending"
    /\ RepairEdit("in_progress")

\* equipment.force_in_use(); equipment.save() : the source='*' transition.
\* django-fsm raises TransitionNotAllowed unless can_proceed holds; the
\* method body is empty, so only the status field is written.
ForceInUse ==
    /\ exists
    /\ CanProceed("force_in_use", status)
    /\ status' = "in_use"
    /\ response' = Resp("force_in_use", status, "in_use", "ok")
    /\ UNCHANGED auxvars
    /\ UNCHANGED <<exists, room, warehouse, repairs, disposals, is_main, roomAtRepair, procvars>>

\* ------------------------------------------------ inventory/signals.py
\* A pre_save handler that asks for a record whatever the instance carries.
NeedRepairRecord_NoCheck(old_status, new_status, hasRecord) ==
    old_status # "in_repair" /\ new_status = "in_repair"

\* handle_equipment_status_change, first branch: instance._need_repair_record.
\* hasRecord is hasattr(instance, 'repair_record').
NeedRepairRecord(old_status, new_status, hasRecord) ==
    /\ old_status # "in_repair" /\ new_status = "in_repair"
    /\ ~hasRecord

\* handle_equipment_status_change, elif branch: instance._need_disposal_record.
NeedDisposalRecord(old_status, new_status, hasRecord) ==
    /\ ~(old_status # "in_repair" /\ new_status = "in_repair")
    /\ old_status # "disposed" /\ new_status = "disposed"
    /\ ~hasRecord

\* create_maintenance_records after the equipment row eq is written: the rows
\* it inserts, and whether an insert was refused by the OneToOneField.
PostSave(old_status, eq, reps, disps) ==
    LET needR == NeedRepairRecord(old_status, eq.status, Len(reps) > 0)
        needD == NeedDisposalRecord(old_status, eq.status, Len(disps) > 0)
    IN [repairs |-> IF needR /\ UniqueOk(reps)
                    THEN Append(reps, RepairNew(eq.room, Null)) ELSE reps,
        disposals |-> IF needD /\ ~(needR /\ ~UniqueOk(reps)) /\ UniqueOk(disps)
                      THEN Append(disps, DisposalNew(eq, "auto")) ELSE disps,
        error |-> (needR /\ ~UniqueOk(reps)) \/ (needD /\ ~UniqueOk(disps))]

\* EquipmentAdmin change form: the status field is written as given and the
\* object saved, with the handlers of signals.py connected.
AdminSave(s) ==
    /\ exists
    /\ LET saved == PostSave(status, [Instance EXCEPT !.status = s], repairs, disposals)
       IN /\ status' = s
          /\ repairs' = saved.repairs
          /\ disposals' = saved.disposals
          /\ response' = Resp("admin_save", status, s,
                              IF saved.error THEN "IntegrityError" ELSE "ok")
    /\ UNCHANGED auxvars
    /\ UNCHANGED <<exists, room, warehouse, is_main, roomAtRepair, procvars>>

\* POST/PUT/PATCH /warehouses/ : Warehouse.save with the given is_main.
WarehouseSave_NoClear(w, flag) ==
    /\ is_main' = [is_main EXCEPT ![w] = flag]
    /\ UNCHANGED auxvars
    /\ response' = Resp("warehouse_save", "none", "absent", "ok")
    /\ UNCHANGED <<dbvars, roomAtRepair, procvars>>

WarehouseSave(w, flag) ==
    /\ is_main' = [(IF flag THEN ClearOtherMains(is_main, w) ELSE is_main) EXCEPT ![w] = flag]
    /\ UNCHANGED auxvars
    /\ response' = Resp("warehouse_save", "none", "absent", "ok")
    /\ UNCHANGED <<dbvars, roomAtRepair, procvars>>

\* ------------------------------------------------- overlapping requests
\* The same update request, split where it reads or writes the database.
\* Every worker holds its own in-memory instance; instance.save() writes all
\* columns of the row from that instance.

\* Requests the workers issue: the status-changing detail actions and PATCHes.
ConcRequests == {StatusOnly(s) : s \in STATUS_CHOICES}

\* get_object + serializer.is_valid + the part of update() before the FSM.
Begin(p, d) ==
    /\ pc[p] = "idle"
    /\ UNCHANGED auxvars
    /\ UNCHANGED whvars
    /\ exists
    /\ inst' = [inst EXCEPT ![p] = Instance]
    /\ req' = [req EXCEPT ![p] = d]
    /\ orig_room' = [orig_room EXCEPT ![p] = Null]
    /\ orig_status' = [orig_status EXCEPT ![p] = status]
    /\ IF Validate(TRUE, status, d) /\ ~(d.send_to_warehouse /\ GetMain = Null)
       THEN /\ pc' = [pc EXCEPT ![p] = IF d.status # "absent" /\ d.status # status
                                       THEN "fsm" ELSE "save"]
            /\ outcome' = [outcome EXCEPT ![p] = "running"]
       ELSE /\ pc' = pc
            /\ outcome' = [outcome EXCEPT ![p] = "rejected"]
    /\ UNCHANGED <<dbvars, is_main, response, roomAtRepair>>

\* _execute_fsm_transition up to and including its first ledger access.
Fsm(p) ==
    /\ pc[p] = "fsm"
    /\ UNCHANGED auxvars
    /\ UNCHANGED whvars
    /\ LET eq == inst[p]
           from == orig_status[p]
           to == req[p].status
       IN CASE from = "in_stock" /\ to = "in_use" ->
                 /\ inst' = [inst EXCEPT ![p] = StartUseM(eq)]
                 /\ pc' = [pc EXCEPT ![p] = "save"]
                 /\ UNCHANGED <<repairs, orig_room, roomAtRepair>>
            [] from = "in_use" /\ to = "in_stock" ->
                 /\ inst' = [inst EXCEPT ![p] = ReturnToStockM(eq, GetMain)]
                 /\ pc' = [pc EXCEPT ![p] = "save"]
                 /\ UNCHANGED <<repairs, orig_room, roomAtRepair>>
            [] from = "in_use" /\ to = "in_repair" ->
                 /\ orig_room' = [orig_room EXCEPT ![p] = eq.room]
                 /\ roomAtRepair' = eq.room
                 /\ inst' = [inst EXCEPT ![p] = SendToRepairM(eq)]
                 /\ pc' = [pc EXCEPT ![p] = IF Len(repairs) > 0 THEN "save" ELSE "create_repair"]
                 /\ UNCHANGED repairs
            [] from = "in_repair" /\ to = "in_use" ->
                 /\ repairs' = CloseRepair(repairs, "completed")
                 /\ inst' = [inst EXCEPT ![p] = CompleteRepairM(eq, repairs')]
                 /\ pc' = [pc EXCEPT ![p] = "save"]
                 /\ UNCHANGED <<orig_room, roomAtRepair>>
            [] from = "in_repair" /\ to = "in_stock" ->
                 /\ repairs' = CloseRepair(repairs, "completed")
                 /\ inst' = [inst EXCEPT ![p] = ReturnFromRepairToStockM(eq, GetMain)]
                 /\ pc' = [pc EXCEPT ![p] = "save"]
                 /\ UNCHANGED <<orig_room, roomAtRepair>>
            [] from = "in_repair" /\ to = "disposed" ->
                 /\ repairs' = CloseRepair(repairs, "failed")
                 /\ inst' = [inst EXCEPT ![p] = FailRepairM(eq)]
                 /\ pc' = [pc EXCEPT ![p] = "lookup_disposal"]
                 /\ UNCHANGED <<orig_room, roomAtRepair>>
            [] from \in {"in_stock", "in_use"} /\ to = "disposed" ->
                 /\ inst' = [inst EXCEPT ![p] = DisposeM(eq)]
                 /\ pc' = [pc EXCEPT ![p] = "lookup_disposal"]
                 /\ UNCHANGED <<repairs, orig_room, roomAtRepair>>
            [] OTHER ->
                 /\ pc' = [pc EXCEPT ![p] = "save"]
                 /\ UNCHANGED <<inst, repairs, orig_room, roomAtRepair>>
    /\ UNCHANGED <<exists, status, room, warehouse, disposals, is_main, response, req, orig_status, outcome>>

\* "try: instance.disposal_record  except Disposal.DoesNotExist:"
LookupDisposal(p) ==
    /\ pc[p] = "lookup_disposal"
    /\ UNCHANGED auxvars
    /\ UNCHANGED whvars
    /\ pc' = [pc EXCEPT ![p] = IF Len(disposals) > 0 THEN "save" ELSE "create_disposal"]
    /\ UNCHANGED <<dbvars, is_main, response, roomAtRepair, inst, req, orig_room, orig_status, outcome>>

\* Repair.objects.create(equipment=instance, original_room=original_room)
CreateRepair(p) ==
    /\ pc[p] = "create_repair"
    /\ UNCHANGED auxvars
    /\ UNCHANGED whvars
    /\ IF UniqueOk(repairs)
       THEN /\ repairs' = Append(repairs, RepairNew(inst[p].room, orig_room[p]))
            /\ pc' = [pc EXCEPT ![p] = "save"]
            /\ UNCHANGED outcome
       ELSE /\ UNCHANGED repairs
            /\ pc' = [pc EXCEPT ![p] = "idle"]
            /\ outcome' = [outcome EXCEPT ![p] = "IntegrityError"]
    /\ UNCHANGED <<exists, status, room, warehouse, disposals, is_main, response,
                   roomAtRepair, inst, req, orig_room, orig_status>>

\* Disposal.objects.create(equipment=instance, reason=...)
CreateDisposal(p) ==
    /\ pc[p] = "create_disposal"
    /\ UNCHANGED auxvars
    /\ UNCHANGED whvars
    /\ IF UniqueOk(disposals)
       THEN /\ disposals' = Append(disposals,
                   DisposalNew(inst[p], IF orig_status[p] = "in_repair"
                                        THEN "failed repair" ELSE "disposal"))
            /\ pc' = [pc EXCEPT ![p] = "save"]
            /\ UNCHANGED outcome
       ELSE /\ UNCHANGED disposals
            /\ pc' = [pc EXCEPT ![p] = "idle"]
            /\ outcome' = [outcome EXCEPT ![p] = "IntegrityError"]
    /\ UNCHANGED <<exists, status, room, warehouse, repairs, is_main, response,
                   roomAtRepair, inst, req, orig_room, orig_status>>

\* setattr loop + instance.save(): all columns are written from the instance.
Save(p) ==
    /\ pc[p] = "save"
    /\ UNCHANGED auxvars
    /\ UNCHANGED whvars
    /\ LET saved == SetAttrs(inst[p], ValidatedLocation(req[p], GetMain))
       IN /\ status' = saved.status
          /\ room' = saved.room
          /\ warehouse' = saved.warehouse
    /\ pc' = [pc EXCEPT ![p] = "idle"]
    /\ outcome' = [outcome EXCEPT ![p] = "ok"]
    /\ UNCHANGED <<exists, repairs, disposals, is_main, response, roomAtRepair,
                   inst, req, orig_room, orig_status>>

\* Warehouse.save split at its two statements: the UPDATE that clears the
\* other main warehouses, then super().save() writing the row itself.
WhClear(p, w, flag) ==
    /\ wh_pc[p] = "idle"
    /\ UNCHANGED auxvars
    /\ wh_req' = [wh_req EXCEPT ![p] = [w |-> w, is_main |-> flag]]
    /\ is_main' = IF flag THEN ClearOtherMains(is_main, w) ELSE is_main
    /\ wh_pc' = [wh_pc EXCEPT ![p] = "write"]
    /\ UNCHANGED <<dbvars, response, roomAtRepair, pc, inst, req, orig_room, orig_status, outcome>>

WhWrite(p) ==
    /\ wh_pc[p] = "write"
    /\ UNCHANGED auxvars
    /\ is_main' = [is_main EXCEPT ![wh_req[p].w] = wh_req[p].is_main]
    /\ wh_pc' = [wh_pc EXCEPT ![p] = "idle"]
    /\ UNCHANGED <<dbvars, response, roomAtRepair, pc, inst, req, orig_room, orig_status,
                   outcome, wh_req>>

\* ------------------------------------------------------- bulk requests
\* Equipment.inn values: '' and the non-blank strings callers supply.
EmptyInn == 0
Inns == 1..NumInns

InnLists == UNION {[1..n -> Inns] : n \in 0..MaxCount}

\* Data of POST /equipment/bulk-create/ as far as validate and create read
\* it; has_inns is FALSE when the key is absent or null.
BulkRequests ==
    {d \in [count : 1..MaxCount, has_inns : BOOLEAN, inns : InnLists] :
        ~d.has_inns => d.inns = <<>>}

\* What bulk_req holds while the worker serves no bulk-create request.
NoBulkRequest == [count |-> 1, has_inns |-> FALSE, inns |-> <<>>]

Range(f) == {f[i] : i \in DOMAIN f}

\* BulkEquipmentSerializer.validate; "if inns:" skips an empty list.
BulkValidate_NoExisting(rows, d) ==
    (d.has_inns /\ Len(d.inns) > 0) =>
        /\ Len(d.inns) = d.count
        /\ Cardinality(Range(d.inns)) = Len(d.inns)

BulkValidate(rows, d) ==
    (d.has_inns /\ Len(d.inns) > 0) =>
        /\ Len(d.inns) = d.count
        /\ Cardinality(Range(d.inns)) = Len(d.inns)
        /\ \A i \in DOMAIN rows : rows[i] \notin Range(d.inns)

\* The inn of the rows the create loop writes: inns[i] if inns else ''.
BatchRows(d) == [i \in 1..d.count |-> IF Len(d.inns) > 0 THEN d.inns[i] ELSE EmptyInn]

\* Rows that open bulk-create transactions will still add.
RECURSIVE InFlight(_)
InFlight(S) ==
    IF S = {} THEN 0
    ELSE LET q == CHOOSE q \in S : TRUE
         IN (IF bulk_pc[q] = "create" THEN bulk_req[q].count ELSE 0) + InFlight(S \ {q})

\* BulkEquipmentCreateView.post up to the create loop: the transaction opens,
\* is_valid runs, create() looks up the main warehouse.
BulkBegin(p, d) ==
    /\ bulk_pc[p] = "idle"
    /\ Len(inn) + InFlight(Procs) + d.count <= MaxItems
    /\ bulk_i' = [bulk_i EXCEPT ![p] = 0]
    /\ IF BulkValidate(inn, d) /\ GetMain # Null
       THEN /\ bulk_req' = [bulk_req EXCEPT ![p] = d]
            /\ bulk_pc' = [bulk_pc EXCEPT ![p] = "create"]
            /\ bulk_out' = [bulk_out EXCEPT ![p] = "running"]
       ELSE /\ UNCHANGED <<bulk_req, bulk_pc>>
            /\ bulk_out' = [bulk_out EXCEPT ![p] = "rejected"]
    /\ UNCHANGED <<dbvars, is_main, response, roomAtRepair, procvars, inn, movements>>

\* One Equipment.objects.create of the loop; the row stays inside the
\* worker's transaction.
BulkInsert_Autocommit(p) ==
    /\ bulk_pc[p] = "create"
    /\ bulk_i[p] < bulk_req[p].count
    /\ bulk_i' = [bulk_i EXCEPT ![p] = @ + 1]
    /\ inn' = Append(inn, BatchRows(bulk_req[p])[bulk_i[p] + 1])
    /\ UNCHANGED <<dbvars, is_main, response, roomAtRepair, procvars,
                   bulk_pc, bulk_req, bulk_out, movements>>

BulkInsert(p) ==
    /\ bulk_pc[p] = "create"
    /\ bulk_i[p] < bulk_req[p].count
    /\ bulk_i' = [bulk_i EXCEPT ![p] = @ + 1]
    /\ UNCHANGED <<dbvars, is_main, response, roomAtRepair, procvars,
                   inn, bulk_pc, bulk_req, bulk_out, movements>>

\* An exception while creating the next row leaves post(): transaction.atomic
\* rolls the rows written so far back.
BulkFail(p) ==
    /\ bulk_pc[p] = "create"
    /\ bulk_i[p] < bulk_req[p].count
    /\ bulk_pc' = [bulk_pc EXCEPT ![p] = "idle"]
    /\ bulk_req' = [bulk_req EXCEPT ![p] = NoBulkRequest]
    /\ bulk_out' = [bulk_out EXCEPT ![p] = "failed"]
    /\ UNCHANGED <<dbvars, is_main, response, roomAtRepair, procvars,
                   inn, bulk_i, movements>>

\* post() returns: transaction.atomic commits every row of the batch.
BulkCommit(p) ==
    /\ bulk_pc[p] = "create"
    /\ bulk_i[p] = bulk_req[p].count
    /\ inn' = inn \o BatchRows(bulk_req[p])
    /\ bulk_pc' = [bulk_pc EXCEPT ![p] = "idle"]
    /\ bulk_req' = [bulk_req EXCEPT ![p] = NoBulkRequest]
    /\ bulk_out' = [bulk_out EXCEPT ![p] = "created"]
    /\ UNCHANGED <<dbvars, is_main, response, roomAtRepair, procvars,
                   bulk_i, movements>>

\* POST /equipment/ seen from the inn column: inn is required and non-blank,
\* nothing compares it with the other rows.
CreateInn(x) ==
    /\ Len(inn) + InFlight(Procs) < MaxItems
    /\ GetMain # Null
    /\ inn' = Append(inn, x)
    /\ UNCHANGED <<dbvars, is_main, response, roomAtRepair, procvars,
                   bulk_pc, bulk_req, bulk_i, bulk_out, movements>>

\* PUT/PATCH /equipment/{id}/ with an inn.
UpdateInn(id, x) ==
    /\ id \in DOMAIN inn
    /\ inn' = [inn EXCEPT ![id] = x]
    /\ UNCHANGED <<dbvars, is_main, response, roomAtRepair, procvars,
                   bulk_pc, bulk_req, bulk_i, bulk_out, movements>>

\* Data of PATCH /equipment/bulk-inn-update/ : a list of {id, inn}.
InnUpdates == UNION {[1..n -> [id : 1..MaxItems, inn : Inns]] : n \in 1..MaxCount}

\* BulkEquipmentInnUpdateSerializer.validate_equipment_inns
ValidateEquipmentInns(rows, m) ==
    LET ids == {m[k].id : k \in DOMAIN m}
        inns == {m[k].inn : k \in DOMAIN m}
    IN /\ Cardinality(inns) = Len(m)
       /\ ids \subseteq DOMAIN rows
       /\ \A i \in DOMAIN rows \ ids : rows[i] \notin inns

\* update_inns: the list is applied in order, a later entry for an id wins.
UpdateInns(rows, m) ==
    [i \in DOMAIN rows |->
        IF \E k \in DOMAIN m : m[k].id = i
        THEN m[CHOOSE k \in DOMAIN m :
                   m[k].id = i /\ \A j \in DOMAIN m : m[j].id = i => j <= k].inn
        ELSE rows[i]]

BulkInnUpdate(m) ==
    /\ Len(inn) > 0
    /\ inn' = IF ValidateEquipmentInns(inn, m) THEN UpdateInns(inn, m) ELSE inn
    /\ UNCHANGED <<dbvars, is_main, response, roomAtRepair, procvars,
                   bulk_pc, bulk_req, bulk_i, bulk_out, movements>>

\* POST /movements/ : the only place a MovementHistory row is inserted.
MovementPost(from_room, to_room) ==
    /\ exists
    /\ Len(movements) < MaxMovements
    /\ movements' = Append(movements, [from_room |-> from_room, to_room |-> to_room])
    /\ UNCHANGED <<dbvars, is_main, response, roomAtRepair, procvars, bulkvars>>

\* ------------------------------------------------------- specifications
\* A tenant starts with no main warehouse or with its first warehouse as the
\* main one; Warehouse.save moves the flag from there.
MainConfigs ==
    {[w \in Warehouses |-> FALSE], [w \in Warehouses |-> w = 1]}

Init ==
    /\ exists = FALSE
    /\ status = "in_stock"
    /\ room = Null
    /\ warehouse = Null
    /\ repairs = <<>>
    /\ disposals = <<>>
    /\ is_main \in MainConfigs
    /\ response = Resp("none", "none", "absent", "ok")
    /\ roomAtRepair = Null
    /\ pc = [p \in Procs |-> "idle"]
    /\ inst = [p \in Procs |-> [status |-> "in_stock", room |-> Null, warehouse |-> Null]]
    /\ req = [p \in Procs |-> StatusOnly("absent")]
    /\ orig_room = [p \in Procs |-> Null]
    /\ orig_status = [p \in Procs |-> "in_stock"]
    /\ outcome = [p \in Procs |-> "none"]
    /\ wh_pc = [p \in Procs |-> "idle"]
    /\ wh_req = [p \in Procs |-> [w |-> 1, is_main |-> FALSE]]
    /\ inn = <<>>
    /\ bulk_pc = [p \in Procs |-> "idle"]
    /\ bulk_req = [p \in Procs |-> NoBulkRequest]
    /\ bulk_i = [p \in Procs |-> 0]
    /\ bulk_out = [p \in Procs |-> "none"]
    /\ movements = <<>>

Next ==
    \/ \E d \in ReqData : Create(d)
    \/ \E d \in ReqData : Update(d)
    \/ \E s \in RepairStatuses : RepairEdit(s)

Spec == Init /\ [][Next]_vars

NextFSM ==
    \/ Create(StatusOnly("absent"))
    \/ \E d \in ReqData : Update(d)
    \/ RepairStart

SpecFSM == Init /\ [][NextFSM]_vars

NextConc ==
    \/ Create(StatusOnly("absent"))
    \/ RepairStart
    \/ \E p \in Procs :
         \/ \E d \in ConcRequests : Begin(p, d)
         \/ Fsm(p)
         \/ LookupDisposal(p)
         \/ CreateRepair(p)
         \/ CreateDisposal(p)
         \/ Save(p)

SpecConc == Init /\ [][NextConc]_vars

\* Warehouses are saved between the status requests on the item.
NextMain ==
    \/ Create(StatusOnly("absent"))
    \/ \E d \in ConcRequests : Update(d)
    \/ RepairStart
    \/ \E w \in Warehouses, flag \in BOOLEAN : WarehouseSave(w, flag)

SpecMain == Init /\ [][NextMain]_vars

\* Warehouses are saved by several workers at the same time.
NextMainConc ==
    \/ Create(StatusOnly("absent"))
    \/ \E d \in ConcRequests : Update(d)
    \/ \E p \in Procs :
         \/ \E w \in Warehouses, flag \in BOOLEAN : WhClear(p, w, flag)
         \/ WhWrite(p)

SpecMainConc == Init /\ [][NextMainConc]_vars

\* Bulk-create requests served by several workers.
NextBulk ==
    \E p \in Procs :
        \/ \E d \in BulkRequests : BulkBegin(p, d)
        \/ BulkInsert(p)
        \/ BulkFail(p)
        \/ BulkCommit(p)

SpecBulk == Init /\ [][NextBulk]_vars

\* Every request that writes Equipment.inn.
NextInn ==
    \/ NextBulk
    \/ \E x \in Inns : CreateInn(x)
    \/ \E id \in 1..MaxItems, x \in Inns : UpdateInn(id, x)
    \/ \E m \in InnUpdates : BulkInnUpdate(m)

SpecInn == Init /\ [][NextInn]_vars

\* Requests that carry a status, a room or both.
MoveRequests == {d \in ReqData : d.warehouse = Absent /\ ~d.send_to_warehouse}

\* Equipment requests and manual movement entries.
NextMove ==
    \/ Create(StatusOnly("absent"))
    \/ \E d \in MoveRequests : Update(d)
    \/ \E f, t \in Rooms \cup {Null} : MovementPost(f, t)

SpecMove == Init /\ [][NextMove]_vars

\* Equipment requests and the administrative override.
NextAdmin ==
    \/ Create(StatusOnly("absent"))
    \/ \E d \in MoveRequests : Update(d)
    \/ RepairStart
    \/ ForceInUse

SpecAdmin == Init /\ [][NextAdmin]_vars

\* Equipment requests and admin edits, with the signal handlers connected.
NextSignals ==
    \/ Create(StatusOnly("absent"))
    \/ \E d \in MoveRequests : Update(d)
    \/ RepairStart
    \/ \E s \in STATUS_CHOICES : AdminSave(s)

SpecSignals == Init /\ [][NextSignals]_vars


\* ----------------------------------------------------------------- claims

\* C1: after any sequence of completed equipment requests, no equipment item
\* has both room and warehouse set.
LocationExclusive == exists => ~(room # Null /\ warehouse # Null)

\* C2: after any sequence of completed equipment requests, an item whose
\* status is disposed has room unset and warehouse unset.
DisposedHasNoLocation ==
    (exists /\ status = "disposed") => (room = Null /\ warehouse = Null)

\* C3: after every completed request on an item that is not disposed, exactly
\* one of room and warehouse is set.
ExactlyOneLocation ==
    (exists /\ status # "disposed") => ((room # Null) # (warehouse # Null))

\* C4: an item with status in_repair has exactly one RepairRecord and that
\* record is pending or in_progress, also on later repair episodes.
RepairOneToOne ==
    (exists /\ status = "in_repair")
        => (Len(repairs) = 1 /\ repairs[1].status \in OpenRepair)

DisposedIsTerminal ==
    [][(exists /\ status = "disposed" /\ response'.op = "update"
          /\ response'.to \in STATUS_CHOICES \ {"disposed"})
          => (response'.result = "error"
                /\ UNCHANGED <<status, room, warehouse, repairs, disposals>>)]_vars

\* A disposed item has just had a request to another status refused.
DisposedRequestRefused ==
    /\ exists
    /\ status = "disposed"
    /\ response.op = "update"
    /\ response.from = "disposed"
    /\ response.to \in STATUS_CHOICES \ {"disposed"}
    /\ response.result = "error"

\* The eight legal (from, to) pairs of the transition table.
LegalPairs ==
    {<<"in_stock", "in_use">>, <<"in_use", "in_stock">>, <<"in_use", "in_repair">>,
     <<"in_repair", "in_use">>, <<"in_repair", "in_stock">>, <<"in_repair", "disposed">>,
     <<"in_stock", "disposed">>, <<"in_use", "disposed">>}

\* C7: a status-change request for a pair of distinct statuses outside the
\* eight legal pairs fails with an error and mutates nothing, whatever room,
\* warehouse or send_to_warehouse the same request carries.
IllegalTransitionNoMutation ==
    [][(exists /\ response'.op = "update"
          /\ response'.to \in STATUS_CHOICES /\ response'.to # status
          /\ <<status, response'.to>> \notin LegalPairs)
          => (response'.result = "error"
                /\ UNCHANGED <<status, room, warehouse, repairs, disposals>>)]_vars

\* An item in stock has just had a request for in_repair refused.
StockToRepairRefused ==
    /\ exists
    /\ status = "in_stock"
    /\ response.op = "update"
    /\ response.from = "in_stock"
    /\ response.to = "in_repair"
    /\ response.result = "error"

\* C8: in every repair episode, in_use -> in_repair -> in_use leaves the item
\* in the room it had when that episode's in_use -> in_repair was requested
\* (no room is assigned to the item while it is in repair).
RoundTripRestoresRoom ==
    [][(exists /\ status = "in_repair" /\ room = Null /\ Update(StatusOnly("in_use")))
          => room' = roomAtRepair]_vars

\* C9: a transition and its ledger write are one atomic unit: no persisted
\* state shows the DisposalRecord of a transition while the equipment row
\* still carries the status from before the transition, or the reverse.
LedgerAtomicWithStatus ==
    exists => ((Len(disposals) > 0) <=> (status = "disposed"))

\* C10: concurrent in_use -> in_repair requests on one item never leave two
\* RepairRecords: at most one Repair insert for the item ever succeeds.
AtMostOneRepairRecord == Len(repairs) <= 1

\* Two workers both read in_use and asked for in_repair; one inserted the
\* record and finished, the other's insert was refused.
RepairRaceResolved ==
    \E p, q \in Procs :
        /\ p # q
        /\ req[p].status = "in_repair" /\ orig_status[p] = "in_use"
        /\ req[q].status = "in_repair" /\ orig_status[q] = "in_use"
        /\ outcome[p] = "IntegrityError"
        /\ outcome[q] = "ok"
        /\ Len(repairs) = 1

\* C11: when an in_use -> disposed request overlaps an in_use -> in_repair or
\* in_use -> in_stock request on the same item, both having read in_use, the
\* outcome is that of running them one after the other: once both requests
\* have ended, the item has a DisposalRecord only if its status is disposed.
DisposeRaceSerial ==
    (/\ \A p \in Procs : pc[p] = "idle"
     /\ \E p, q \in Procs :
           /\ p # q
           /\ orig_status[p] = "in_use" /\ req[p].status = "disposed"
           /\ orig_status[q] = "in_use" /\ req[q].status \in {"in_repair", "in_stock"}
           /\ outcome[p] \in {"ok", "IntegrityError"}
           /\ outcome[q] \in {"ok", "IntegrityError"}
     /\ Len(disposals) > 0)
        => status = "disposed"

\* C12: after any sequence of non-overlapping Warehouse.save calls at most one
\* warehouse has is_main = true, and a save with is_main = true leaves the
\* saved warehouse as the only main one.
SingleMainWarehouse ==
    /\ [](Cardinality({w \in Warehouses : is_main[w]}) <= 1)
    /\ [][\A w \in Warehouses :
             WarehouseSave(w, TRUE) => \A v \in Warehouses : is_main'[v] <=> (v = w)]_vars

\* The main flag has moved: the item was taken in at the main warehouse of
\* that time, and a later save made another warehouse the main one.
MainWarehouseMoved ==
    /\ exists
    /\ warehouse # Null
    /\ response.op = "warehouse_save"
    /\ GetMain # Null
    /\ GetMain # warehouse

\* C13: when two requests save two different warehouses with is_main = true
\* at the same time, no interleaving of their steps (clear the other mains,
\* then write the own row) reaches a state with two main warehouses.
ConcurrentSavesOneMain ==
    \A v, w \in Warehouses : (is_main[v] /\ is_main[w]) => v = w

\* C14: every equipment item created through the serializer has status
\* in_stock, warehouse equal to the main warehouse and room unset, whatever
\* room, warehouse, status or send_to_warehouse the caller supplied.
IntakeInStockAtMain ==
    (exists /\ response.op = "create" /\ response.result = "ok")
        => (status = "in_stock" /\ warehouse = GetMain /\ room = Null)

\* C15: while no main warehouse exists, an in_use -> in_stock or
\* in_repair -> in_stock request fails with an error and leaves status, room
\* and warehouse unchanged (it never ends in_stock with no warehouse).
ReturnNeedsMainWarehouse ==
    [][(exists /\ GetMain = Null /\ status \in {"in_use", "in_repair"}
          /\ response'.op = "update" /\ response'.to = "in_stock")
          => (response'.result = "error" /\ UNCHANGED <<status, room, warehouse>>)]_vars

\* C16: bulk creation is all-or-nothing: the committed equipment rows change
\* only by a whole batch at the moment its request succeeds, and a request
\* that fails while creating item i leaves none of its rows persisted.
BulkAllOrNothing ==
    [][/\ (inn' # inn) =>
             \E p \in Procs :
                 /\ bulk_pc[p] = "create"
                 /\ bulk_out'[p] = "created"
                 /\ inn' = inn \o BatchRows(bulk_req[p])
       /\ \A p \in Procs :
             (bulk_pc[p] = "create" /\ bulk_out'[p] = "failed") => inn' = inn]_vars

\* A request failed after its first row was written, and no equipment row
\* is persisted.
BatchRolledBack ==
    \E p \in Procs :
        /\ bulk_out[p] = "failed"
        /\ bulk_i[p] >= 1
        /\ Len(inn) = 0

\* The inns of a request break a rule of the batch: wrong number, a repeated
\* inn, or an inn an existing row already has.
BadInns(rows, d) ==
    \/ Len(d.inns) # d.count
    \/ Cardinality(Range(d.inns)) # Len(d.inns)
    \/ \E i \in DOMAIN rows : rows[i] \in Range(d.inns)

\* C17: a bulk_create request that supplies inns is rejected before any write
\* when the number of inns differs from count, when two inns are equal, or
\* when an inn belongs to an existing item: no such request enters the create
\* loop, and a rejection leaves the equipment rows unchanged.
BulkRejectsSuppliedInns ==
    [][\A p \in Procs :
          /\ (bulk_pc[p] = "idle" /\ bulk_pc'[p] = "create")
                => ~(bulk_req'[p].has_inns /\ BadInns(inn, bulk_req'[p]))
          /\ (bulk_out[p] # "rejected" /\ bulk_out'[p] = "rejected")
                => inn' = inn]_vars

\* C17, amended: the same for a request that supplies a non-empty inns list.
BulkRejectsNonEmptyInns ==
    [][\A p \in Procs :
          /\ (bulk_pc[p] = "idle" /\ bulk_pc'[p] = "create")
                => ~(/\ bulk_req'[p].has_inns
                     /\ Len(bulk_req'[p].inns) > 0
                     /\ BadInns(inn, bulk_req'[p]))
          /\ (bulk_out[p] # "rejected" /\ bulk_out'[p] = "rejected")
                => inn' = inn]_vars

\* A bulk-create request was rejected while a main warehouse exists and rows
\* with inns are committed: its inns broke a rule of the batch.
InnsRejected ==
    \E p \in Procs :
        /\ GetMain # Null
        /\ bulk_out[p] = "rejected"
        /\ bulk_pc[p] = "idle"
        /\ \E i \in DOMAIN inn : inn[i] # EmptyInn

\* C18: after any sequence of single create, update, bulk_create and bulk INN
\* update requests (two bulk_create requests may overlap), no two equipment
\* items share the same non-empty inn.
InnUnique ==
    \A i, j \in DOMAIN inn : (i # j /\ inn[i] # EmptyInn) => inn[i] # inn[j]

\* C19: every completed request that changes an item's room appends exactly
\* one MovementHistory row from the old room to the new one, and a request
\* that leaves the room unchanged appends none.
MovementLogged ==
    [][\A d \in MoveRequests :
          Update(d) =>
             movements' = IF room' # room
                          THEN Append(movements, [from_room |-> room, to_room |-> room'])
                          ELSE movements]_vars

\* C20: a request that supplies a room while the same request makes the item
\* warehouse-resident (target in_stock from in_use or in_repair, or
\* send_to_warehouse = true) is rejected and leaves the equipment unchanged.
RoomWithReturnRejected ==
    [][\A d \in ReqData :
          (/\ Given(d.room)
           /\ \/ d.send_to_warehouse
              \/ (d.status = "in_stock" /\ status \in {"in_use", "in_repair"})
           /\ Update(d))
             => (response'.result = "error"
                   /\ UNCHANGED <<status, room, warehouse, repairs, disposals>>)]_vars

\* C21: a status-change request whose target equals the item's current
\* status (any of the four) is accepted without error, creates no
\* RepairRecord, DisposalRecord or MovementHistory row and leaves status,
\* room, warehouse and the existing ledger records unchanged, so repeating it
\* gives the same state.
SameStatusIsNoOp ==
    [][(exists /\ Update(StatusOnly(status)))
          => (response'.result = "ok"
                /\ UNCHANGED <<status, room, warehouse, repairs, disposals, movements>>)]_vars

\* An item in repair, with its repair record, has just been asked for
\* in_repair again and the request was accepted.
SameStatusAccepted ==
    /\ exists
    /\ status = "in_repair"
    /\ Len(repairs) = 1
    /\ response = Resp("update", "in_repair", "in_repair", "ok")

\* C22: from an item in_use in a room R, in_use -> in_repair followed directly
\* by in_repair -> in_use (the repair record is not edited in between) ends
\* with room = R and the item's RepairRecord completed with end_date set.
RepairRoundTripClosesRecord ==
    [][(/\ exists
        /\ status = "in_repair"
        /\ response = Resp("update", "in_use", "in_repair", "ok")
        /\ roomAtRepair # Null
        /\ room = Null
        /\ Update(StatusOnly("in_use")))
          => (/\ room' = roomAtRepair
              /\ Len(repairs') = 1
              /\ repairs'[1].status = "completed"
              /\ repairs'[1].end_date)]_vars

\* C23: for an item in_use in room R with no RepairRecord, the
\* in_use -> in_repair request ends with status in_repair, room unset and
\* exactly one new RepairRecord, pending, with original_room = R: the room is
\* captured before it is cleared.
SendToRepairCapturesRoom ==
    [][(/\ exists
        /\ status = "in_use"
        /\ room # Null
        /\ Len(repairs) = 0
        /\ Update(SendToRepairData))
          => (/\ response'.result = "ok"
              /\ status' = "in_repair"
              /\ room' = Null
              /\ repairs' = <<[status |-> "pending", original_room |-> room,
                               end_date |-> FALSE]>>)]_vars

\* The item has just gone to repair from a room, and its one record is
\* pending and names that room.
RepairOpenedWithRoom ==
    /\ exists
    /\ status = "in_repair"
    /\ room = Null
    /\ response = Resp("update", "in_use", "in_repair", "ok")
    /\ Len(repairs) = 1
    /\ repairs[1].status = "pending"
    /\ repairs[1].original_room # Null
    /\ repairs[1].original_room = roomAtRepair

\* What leaving in_repair does to the item's repair record: an in_progress
\* record is closed with the outcome and end_date, anything else is kept.
RecordAfterLeaving(reps, closed_as) ==
    IF Len(reps) > 0 /\ reps[1].status = "in_progress"
    THEN [reps EXCEPT ![1] = [status |-> closed_as,
                              original_room |-> reps[1].original_room,
                              end_date |-> TRUE]]
    ELSE reps

\* C24: when an item leaves in_repair and its RepairRecord is in_progress, the
\* record is closed with end_date set (completed on -> in_use and -> in_stock,
\* failed on -> disposed); with a record in any other status, or none, the
\* transition still succeeds and the record is left unchanged.
LeavingRepairClosesInProgress ==
    [][\A s \in {"in_use", "in_stock", "disposed"} :
          (exists /\ status = "in_repair" /\ Update(StatusOnly(s)))
             => (/\ response'.result = "ok"
                 /\ status' = s
                 /\ repairs' = RecordAfterLeaving(repairs,
                                   IF s = "disposed" THEN "failed" ELSE "completed"))]_vars

\* A repair that was in progress has failed: the item is disposed and its
\* repair record is closed as failed with end_date set.
FailedRepairClosed ==
    /\ exists
    /\ status = "disposed"
    /\ response = Resp("update", "in_repair", "disposed", "ok")
    /\ Len(repairs) = 1
    /\ repairs[1].status = "failed"
    /\ repairs[1].end_date
    /\ Len(disposals) = 1

\* C25: after every successful in_repair -> in_stock transition with a main
\* warehouse configured, the item's warehouse is the main warehouse and its
\* room is unset, also when a room was assigned to the item while in repair.
RepairToStockClearsRoom ==
    [][(/\ exists
        /\ status = "in_repair"
        /\ GetMain # Null
        /\ Update(StatusOnly("in_stock"))
        /\ response'.result = "ok")
          => (warehouse' = GetMain /\ room' = Null)]_vars

\* C26: when an item whose RepairRecord is completed or failed goes
\* in_use -> in_repair again, the item then has a fresh record for the new
\* episode: pending, no end_date, original_room equal to the room the item
\* had when the new episode began.
NewEpisodeFreshRecord ==
    [][(/\ exists
        /\ status = "in_use"
        /\ Len(repairs) > 0
        /\ repairs[1].status \in ClosedRepair
        /\ Update(SendToRepairData))
          => (/\ Len(repairs') = 1
              /\ repairs'[1] = [status |-> "pending", original_room |-> room,
                                end_date |-> FALSE])]_vars

\* C27: a direct disposal (in_stock -> disposed or in_use -> disposed) of an
\* item without DisposalRecord creates exactly one DisposalRecord with the
\* direct-disposal reason, leaves room and warehouse unset, and the record's
\* original_room is the room the item occupied just before the disposal.
DirectDisposalRecordsRoom ==
    [][(/\ exists
        /\ status \in {"in_stock", "in_use"}
        /\ Len(disposals) = 0
        /\ Update(DisposeData))
          => (/\ status' = "disposed"
              /\ room' = Null
              /\ warehouse' = Null
              /\ disposals' = <<[reason |-> "disposal", original_room |-> room]>>)]_vars

\* C28: over any sequence of repair-record status changes (by equipment
\* transitions or by edits through the repair endpoint, reopening included),
\* a RepairRecord's end_date is set exactly when its status is completed or
\* failed.
EndDateIffClosed ==
    \A i \in DOMAIN repairs : repairs[i].end_date <=> (repairs[i].status \in ClosedRepair)

\* C29: force_in_use is enabled from every status, sets status to in_use and
\* leaves room, warehouse, RepairRecord and DisposalRecord unchanged; no
\* status-change request through EquipmentSerializer performs it: a request
\* moves an item into in_use only from in_stock or in_repair.
ForceInUseOverride ==
    /\ [](exists => CanProceed("force_in_use", status))
    /\ [][(response'.op = "force_in_use")
            => (/\ status' = "in_use"
                /\ UNCHANGED <<room, warehouse, repairs, disposals>>)]_vars
    /\ [][(response'.op = "update" /\ status' = "in_use" /\ status # "in_use")
            => (status \in {"in_stock", "in_repair"}
                  /\ TransitionMap(status, "in_use") # "force_in_use")]_vars

ForcedOutOfDisposed ==
    /\ exists
    /\ status = "in_use"
    /\ response = Resp("force_in_use", "disposed", "in_use", "ok")
    /\ room = Null
    /\ warehouse = Null
    /\ Len(disposals) = 1

\* C30: with the handlers connected, a save creates a Repair (Disposal) only
\* when the status moves into in_repair (disposed) and the item has no such
\* record; at the save of every successful EquipmentSerializer.update the
\* handlers ask for nothing, no insert is refused, and the item never has
\* more than one Repair or more than one Disposal.
SignalsNeverDuplicate ==
    /\ [](/\ Len(repairs) <= 1
          /\ Len(disposals) <= 1
          /\ response.result # "IntegrityError")
    /\ [][(response'.op = "update" /\ response'.result = "ok")
            => (/\ ~NeedRepairRecord(status, status', Len(repairs') > 0)
                /\ ~NeedDisposalRecord(status, status', Len(disposals') > 0))]_vars
    /\ [][(response'.op = "admin_save")
            => (/\ (repairs' # repairs)
                     => (/\ Len(repairs) = 0
                         /\ status # "in_repair" /\ status' = "in_repair"
                         /\ Len(repairs') = 1)
                /\ (disposals' # disposals)
                     => (/\ Len(disposals) = 0
                         /\ status # "disposed" /\ status' = "disposed"
                         /\ Len(disposals') = 1))]_vars

SignalAddsMissingDisposal ==
    /\ exists
    /\ status = "disposed"
    /\ response = Resp("admin_save", "in_repair", "disposed", "ok")
    /\ Len(repairs) = 1
    /\ disposals = <<[reason |-> "auto", original_room |-> room]>>

====
